---- MODULE Spec2Model ----
(***************************************************************************)
(* Model of the results card controller (static/js/results_card.js).       *)
(*                                                                         *)
(* One DOMContentLoaded handler owns `currentProvince` and the mount       *)
(* container.  fetchAndRenderResults replaces the container's markup by a  *)
(* loading placeholder and issues a request; its response handler replaces *)
(* the markup again by a freshly built panel (or by the error panel) and   *)
(* attaches the listeners of that panel.  Every render builds new DOM      *)
(* nodes and a new closure (with its own tableHasBeenLoaded); the nodes of *)
(* earlier renders stay alive, detached, for as long as a listener or an   *)
(* outstanding promise refers to them.                                     *)
(*                                                                         *)
(* `panel` is the nodes and the closure of the latest render, in the       *)
(* document or not.  Of the renders before it, `discarded` keeps the two   *)
(* nodes something can still write to: the options box (the document       *)
(* listener of that render) and the table content area (a table fetch of   *)
(* that render still outstanding).  Nothing can read or write the rest of  *)
(* a discarded panel: its listeners need a click on a node that is no      *)
(* longer in the document.                                                 *)
(***************************************************************************)
EXTENDS Naturals, Sequences, FiniteSets

VARIABLES
    currentProvince, \* let currentProvince                      (line 4)
    view,            \* what resultsContainer.innerHTML holds now
    errorText,       \* the red line of the error panel          (line 213)
    renders,         \* successful renders so far
    panel,           \* nodes and closure of render number `renders`
    discarded,       \* what is left of renders 1 .. renders-1
    docListeners,    \* document-level click listeners, by render (line 177)
    requests,        \* every fetch(url) called so far, in order
    inflight,        \* indices into requests: fetches not yet settled
    shownFrom        \* the request whose response wrote the container's
                     \* markup (0: the loading placeholder is showing)

vars ==
    <<currentProvince, view, errorText, renders, panel, discarded,
      docListeners, requests, inflight, shownFrom>>

----------------------------------------------------------------------------
(* Bounds of the exploration. *)

\* successful renders (panels built) explored in one page lifetime
MaxPanels == 2

\* fetch calls explored in one page lifetime
MaxRequests == 5

----------------------------------------------------------------------------
(* Inputs: what the server may answer. *)

\* payload.provinces (absent and [] both add no option beyond "All")
ProvinceLists == { <<"ON">>, <<"QC", "">>, <<"ON", "ON">> }

\* payload.selected_province ("" stands for absent or empty: both falsy)
SelectedProvinces == { "", "All", "QC" }

NoPayload == [provinces |-> <<>>, selected_province |-> ""]

\* A settled fetch.  net: fetch() itself resolved; ok: response.ok;
\* parsable: response.json() resolves; error: the body's error field ("" when
\* absent or empty); wellFormed: the payload has numeric rmse and mape.
Response(net, ok, parsable, error, wellFormed, payload, markup) ==
    [net |-> net, ok |-> ok, parsable |-> parsable, error |-> error,
     wellFormed |-> wellFormed, payload |-> payload, markup |-> markup]

FailureResponses ==
    { Response(FALSE, FALSE, FALSE, "", FALSE, NoPayload, ""),
      Response(TRUE, FALSE, FALSE, "", FALSE, NoPayload, ""),
      Response(TRUE, FALSE, TRUE, "", FALSE, NoPayload, ""),
      Response(TRUE, FALSE, TRUE, "no model", FALSE, NoPayload, ""),
      Response(TRUE, TRUE, FALSE, "", FALSE, NoPayload, "") }

ResultsResponses ==
    FailureResponses
    \cup { Response(TRUE, TRUE, TRUE, "", FALSE, NoPayload, "") }
    \cup { Response(TRUE, TRUE, TRUE, "", TRUE,
                    [provinces |-> ps, selected_province |-> sp], "")
           : ps \in ProvinceLists, sp \in SelectedProvinces }

TableResponses ==
    FailureResponses
    \cup { Response(TRUE, TRUE, TRUE, "", TRUE, NoPayload, "<table>") }

----------------------------------------------------------------------------
(* Pure helpers. *)

GenericMessage == "An unknown error occurred"

\* messages the runtime itself produces
NetworkMessage == "Failed to fetch"
JsonSyntaxMessage == "Unexpected token in JSON"
TypeErrorMessage == "Cannot read properties of undefined"

\* Variant of BuildUrl: the parameter is appended whatever its value.
BuildUrl_Always(endpoint, province) ==
    [endpoint |-> endpoint, hasProvince |-> TRUE, province |-> province]

\* if (currentProvince) params.append('province', currentProvince);
\* if (params.toString()) url += `?${params.toString()}`
BuildUrl(endpoint, province) ==
    IF province # ""
    THEN [endpoint |-> endpoint, hasProvince |-> TRUE, province |-> province]
    ELSE [endpoint |-> endpoint, hasProvince |-> FALSE, province |-> ""]

\* The first .then of both fetches, as the message of the error it throws.
\* Only called for a response that fails before the second .then.
ResponseError(resp) ==
    IF ~resp.net THEN NetworkMessage
    ELSE IF ~resp.parsable THEN JsonSyntaxMessage
    ELSE IF resp.error # "" THEN resp.error
    ELSE GenericMessage

\* The response reaches the second .then with parsed data.
ReachesData(resp) == resp.net /\ resp.ok /\ resp.parsable

\* value === "All" ? "All Provinces" : text
OptionText(value, text) == IF value = "All" THEN "All Provinces" ELSE text

\* Variant of OptionList: the "All" option is added after the provinces.
OptionList_AllLast(payload) ==
    [i \in 1..Len(payload.provinces) |->
            [value |-> payload.provinces[i], text |-> payload.provinces[i]]]
    \o <<[value |-> "All", text |-> "All Provinces"]>>

\* addOption("All", "All Provinces"); data.provinces.forEach(addOption(p, p))
OptionList(payload) ==
    <<[value |-> "All", text |-> "All Provinces"]>>
    \o [i \in 1..Len(payload.provinces) |->
            [value |-> payload.provinces[i], text |-> payload.provinces[i]]]

\* Variant of SelectedValueForDisplay: the backend value is shown as it is.
SelectedValueForDisplay_Raw(payload, cur) ==
    IF payload.selected_province # "" THEN payload.selected_province
    ELSE IF cur # "" THEN cur
    ELSE "All"

\* Variant of SelectedValueForDisplay: the tracked province comes before the
\* payload's.
SelectedValueForDisplay_TrackedFirst(payload, cur) ==
    IF cur # ""
    THEN (IF cur = "All" THEN "All Provinces" ELSE cur)
    ELSE IF payload.selected_province # ""
    THEN (IF payload.selected_province = "All" THEN "All Provinces"
          ELSE payload.selected_province)
    ELSE "All Provinces"

\* Variant of SelectedValueForBackend: the tracked province is not taken
\* from the payload.
SelectedValueForBackend_KeepsTracked(payload, cur) ==
    IF cur # "" THEN cur ELSE "All"

\* lines 156-165
SelectedValueForBackend(payload, cur) ==
    IF payload.selected_province # "" THEN payload.selected_province
    ELSE IF cur # "" THEN cur
    ELSE "All"

SelectedValueForDisplay(payload, cur) ==
    IF payload.selected_province # ""
    THEN (IF payload.selected_province = "All" THEN "All Provinces"
          ELSE payload.selected_province)
    ELSE IF cur # ""
    THEN (IF cur = "All" THEN "All Provinces" ELSE cur)
    ELSE "All Provinces"

\* innerHTML of #table-content-area
EmptyContent == [kind |-> "empty", text |-> ""]
LoadingContent == [kind |-> "loading", text |-> "Loading table data..."]
MarkupContent(markup) == [kind |-> "markup", text |-> markup]
ErrorContent(message) == [kind |-> "error", text |-> message]

\* The panel as the success handler leaves it (lines 45-168).
NewPanel(payload, cur) ==
    [selectedText       |-> SelectedValueForDisplay(payload, cur),
     options            |-> OptionList(payload),
     optionsHidden      |-> TRUE,
     plotHidden         |-> FALSE,
     tableHidden        |-> TRUE,
     tableContent       |-> EmptyContent,
     tableHasBeenLoaded |-> FALSE]

\* Before the first render there are no nodes.
NoPanel ==
    [selectedText       |-> "",
     options            |-> <<>>,
     optionsHidden      |-> TRUE,
     plotHidden         |-> TRUE,
     tableHidden        |-> TRUE,
     tableContent       |-> EmptyContent,
     tableHasBeenLoaded |-> FALSE]

\* What stays writable of a panel once a later render has replaced it.
Discard(p) ==
    [optionsHidden |-> p.optionsHidden, tableContent |-> p.tableContent]

\* Variant of Rendered: the error panel is added to the container and the
\* panel of the latest render stays in the document with it.
Rendered_UnderError == view \in {"panel", "error"}

\* The container shows the panel of the latest render.
Rendered == view = "panel"

\* A click target: a region of the selector markup of one render (lines
\* 51-64), or a node outside every selector (render 0).  The wrapper
\* <div class="relative"> holds the label, the button and the options box;
\* the options box holds the options.
Target(render, region) == [render |-> render, region |-> region]

Elsewhere == Target(0, "elsewhere")

\* node.contains(target), for two regions of the same selector
Contains(container, region) ==
    \/ container = region
    \/ container = "wrapper"
            /\ region \in {"label", "button", "optionsBox", "option"}
    \/ container = "optionsBox" /\ region = "option"

\* customProvinceSelectButton.closest('.relative') (line 179): closest starts
\* at the element itself, and the button carries the class `relative` (line
\* 53), so the node found is the button, not the wrapper around it.
DropdownContainer == "button"

\* The document listener of render k (lines 177-183) hides the options box
\* of render k unless its dropdown container contains the click target.
ListenerHides(k, target) ==
    /\ k \in docListeners
    /\ ~(target.render = k /\ Contains(DropdownContainer, target.region))

\* Variant of PanelAfterDocumentClick: the document listener does nothing.
PanelAfterDocumentClick_NoOp(p, target) == p

PanelAfterDocumentClick(p, target) ==
    IF ListenerHides(renders, target)
    THEN [p EXCEPT !.optionsHidden = TRUE]
    ELSE p

DiscardedAfterDocumentClick(target) ==
    [k \in 1..Len(discarded) |->
        IF ListenerHides(k, target)
        THEN [discarded[k] EXCEPT !.optionsHidden = TRUE]
        ELSE discarded[k]]

----------------------------------------------------------------------------
(* Variant of StartResults: the loading placeholder is not rendered, the   *)
(* panel stays in the document while the request is outstanding.           *)

StartResults_KeepsPanel(prov) ==
    /\ view' = view
    /\ errorText' = errorText
    /\ requests' = Append(requests,
                     [url |-> BuildUrl("results", prov), panel |-> 0])
    /\ inflight' = inflight \cup {Len(requests) + 1}
    /\ shownFrom' = shownFrom

(* fetchAndRenderResults, up to and including fetch(url) (lines 14-35). *)

StartResults(prov) ==
    /\ view' = "loading"
    /\ errorText' = ""
    /\ requests' = Append(requests,
                     [url |-> BuildUrl("results", prov), panel |-> 0])
    /\ inflight' = inflight \cup {Len(requests) + 1}
    /\ shownFrom' = 0

\* The state the DOMContentLoaded handler leaves: fetchAndRenderResults()
\* has run once with currentProvince = "All" (line 250).
Init ==
    /\ currentProvince = "All"
    /\ view = "loading"
    /\ errorText = ""
    /\ renders = 0
    /\ panel = NoPanel
    /\ discarded = <<>>
    /\ docListeners = {}
    /\ requests = <<[url |-> BuildUrl("results", "All"), panel |-> 0]>>
    /\ inflight = {1}
    /\ shownFrom = 0

----------------------------------------------------------------------------
(* fetchAndRenderTable, up to and including fetch(url) (lines 220-232): the *)
(* content area it looks up is the one in the document, and the promise    *)
(* keeps that node.                                                        *)

StartTable(p) ==
    /\ requests' = Append(requests,
                     [url |-> BuildUrl("table", currentProvince),
                      panel |-> renders])
    /\ inflight' = inflight \cup {Len(requests) + 1}
    /\ panel' = [p EXCEPT !.tableContent = LoadingContent]

----------------------------------------------------------------------------
(* User events.  A node takes a click only while it is in the document and *)
(* shown.                                                                  *)

\* Variant of SelectOption: the request is built before currentProvince is
\* assigned.
SelectOption_FetchFirst(opt) ==
    /\ currentProvince' = opt.value
    /\ StartResults(currentProvince)
    /\ panel' = PanelAfterDocumentClick(
                    [panel EXCEPT
                        !.selectedText = OptionText(opt.value, opt.text),
                        !.optionsHidden = TRUE,
                        !.tableHasBeenLoaded = FALSE],
                    Target(renders, "option"))
    /\ discarded' = DiscardedAfterDocumentClick(Target(renders, "option"))
    /\ UNCHANGED <<renders, docListeners>>

\* optionDiv click listener (lines 138-144); the click then bubbles to the
\* document, its target an option of this render.
SelectOption(opt) ==
    /\ currentProvince' = opt.value
    /\ StartResults(opt.value)
    /\ panel' = PanelAfterDocumentClick(
                    [panel EXCEPT
                        !.selectedText = OptionText(opt.value, opt.text),
                        !.optionsHidden = TRUE,
                        !.tableHasBeenLoaded = FALSE],
                    Target(renders, "option"))
    /\ discarded' = DiscardedAfterDocumentClick(Target(renders, "option"))
    /\ UNCHANGED <<renders, docListeners>>

CanSelect == Rendered /\ ~panel.optionsHidden

OptionClick ==
    /\ CanSelect
    /\ Len(requests) < MaxRequests
    /\ \E i \in 1..Len(panel.options) : SelectOption(panel.options[i])

\* customProvinceSelectButton click listener (lines 171-174); the event
\* stops there.
ButtonClick ==
    /\ Rendered
    /\ panel' = [panel EXCEPT !.optionsHidden = ~@]
    /\ UNCHANGED <<currentProvince, view, errorText, renders, discarded,
                   docListeners, requests, inflight, shownFrom>>

\* A click inside the selector that hits neither the button nor an option
\* (the padding of the open options box): only the document listeners run.
InsideClick ==
    /\ Rendered
    /\ ~panel.optionsHidden
    /\ panel' = PanelAfterDocumentClick(panel, Target(renders, "optionsBox"))
    /\ discarded' = DiscardedAfterDocumentClick(Target(renders, "optionsBox"))
    /\ UNCHANGED <<currentProvince, view, errorText, renders, docListeners,
                   requests, inflight, shownFrom>>

\* A click anywhere else in the document, whatever the container shows.
OutsideClick ==
    /\ panel' = PanelAfterDocumentClick(panel, Elsewhere)
    /\ discarded' = DiscardedAfterDocumentClick(Elsewhere)
    /\ UNCHANGED <<currentProvince, view, errorText, renders, docListeners,
                   requests, inflight, shownFrom>>

\* Variant of ShowPlot: leaving the table pane forgets that it was loaded.
ShowPlot_ForgetsTable(p) ==
    [p EXCEPT !.tableHidden = TRUE, !.plotHidden = FALSE,
              !.tableHasBeenLoaded = FALSE]

\* plotTabBtn click listener (lines 185-192).
ShowPlot(p) == [p EXCEPT !.tableHidden = TRUE, !.plotHidden = FALSE]

\* The click on the tab then bubbles to the document, its target outside
\* the dropdown container.
PlotTabClick ==
    /\ Rendered
    /\ panel' = PanelAfterDocumentClick(ShowPlot(panel), Elsewhere)
    /\ discarded' = DiscardedAfterDocumentClick(Elsewhere)
    /\ UNCHANGED <<currentProvince, view, errorText, renders, docListeners,
                   requests, inflight, shownFrom>>

\* Variant of ShowTable: the plot pane is not hidden.
ShowTable_KeepsPlot(p) == [p EXCEPT !.tableHidden = FALSE]

\* tableTabBtn click listener (lines 194-200).
ShowTable(p) == [p EXCEPT !.plotHidden = TRUE, !.tableHidden = FALSE]

\* Variant of MustLoadTable: no guard, every activation loads.
MustLoadTable_Always(p) == TRUE

\* if (!tableHasBeenLoaded)  (line 201)
MustLoadTable(p) == ~p.tableHasBeenLoaded

\* tableTabBtn click listener (lines 194-205), then the document listeners.
TableTabClick ==
    /\ Rendered
    /\ IF MustLoadTable(panel)
       THEN /\ Len(requests) < MaxRequests
            /\ StartTable(PanelAfterDocumentClick(
                   [ShowTable(panel) EXCEPT !.tableHasBeenLoaded = TRUE],
                   Elsewhere))
       ELSE /\ panel' = PanelAfterDocumentClick(ShowTable(panel), Elsewhere)
            /\ UNCHANGED <<requests, inflight>>
    /\ discarded' = DiscardedAfterDocumentClick(Elsewhere)
    /\ UNCHANGED <<currentProvince, view, errorText, renders, docListeners,
                   shownFrom>>

----------------------------------------------------------------------------
(* Settled fetches.  Nothing orders them: any outstanding one may settle    *)
(* next, with any response.                                                *)

\* Variant of RenderResults: the listener of the previous render is removed
\* when the new one is registered.
RenderResults_OneListener(payload) ==
    /\ view' = "panel"
    /\ errorText' = ""
    /\ renders' = renders + 1
    /\ panel' = NewPanel(payload, currentProvince)
    /\ discarded' = IF renders = 0 THEN discarded
                    ELSE Append(discarded, Discard(panel))
    /\ currentProvince' = SelectedValueForBackend(payload, currentProvince)
    /\ docListeners' = {renders + 1}

\* The second .then of fetchAndRenderResults (lines 44-207): new nodes, a
\* new closure, one more document listener.
RenderResults(payload) ==
    /\ view' = "panel"
    /\ errorText' = ""
    /\ renders' = renders + 1
    /\ panel' = NewPanel(payload, currentProvince)
    /\ discarded' = IF renders = 0 THEN discarded
                    ELSE Append(discarded, Discard(panel))
    /\ currentProvince' = SelectedValueForBackend(payload, currentProvince)
    /\ docListeners' = docListeners \cup {renders + 1}

\* Variant of RenderError: the failure is only logged, the container keeps
\* what it shows.
RenderError_LogOnly(message) ==
    /\ view' = view
    /\ errorText' = errorText
    /\ UNCHANGED <<currentProvince, renders, panel, discarded, docListeners>>

\* Variant of RenderError: a failure also resets the selection to "All".
RenderError_ResetsProvince(message) ==
    /\ view' = "error"
    /\ errorText' = message
    /\ currentProvince' = "All"
    /\ UNCHANGED <<renders, panel, discarded, docListeners>>

\* The .catch of fetchAndRenderResults (lines 208-217).
RenderError(message) ==
    /\ view' = "error"
    /\ errorText' = message
    /\ UNCHANGED <<currentProvince, renders, panel, discarded, docListeners>>

\* The message of the error the results chain ends with, when it does: a
\* payload without numeric rmse and mape makes the template throw.
ResultsFailure(resp) ==
    IF ReachesData(resp) THEN TypeErrorMessage ELSE ResponseError(resp)

\* Variant of SettleResults: a payload whose selected_province is not the
\* tracked province is taken for the answer to an older request and dropped.
SettleResults_DropsMismatch(q, resp) ==
    /\ q \in inflight
    /\ requests[q].url.endpoint = "results"
    /\ inflight' = inflight \ {q}
    /\ IF ReachesData(resp) /\ resp.wellFormed
       THEN IF resp.payload.selected_province \in {"", currentProvince}
            THEN /\ renders < MaxPanels
                 /\ shownFrom' = q
                 /\ RenderResults(resp.payload)
            ELSE UNCHANGED <<currentProvince, view, errorText, renders,
                             panel, discarded, docListeners, shownFrom>>
       ELSE shownFrom' = q /\ RenderError(ResultsFailure(resp))
    /\ UNCHANGED requests

\* Variant of SettleResults: the error thrown while rendering a malformed
\* payload is not caught; the container keeps the loading placeholder.
SettleResults_Uncaught(q, resp) ==
    /\ q \in inflight
    /\ requests[q].url.endpoint = "results"
    /\ inflight' = inflight \ {q}
    /\ IF ReachesData(resp) /\ resp.wellFormed
       THEN renders < MaxPanels /\ shownFrom' = q
                /\ RenderResults(resp.payload)
       ELSE IF ReachesData(resp)
       THEN UNCHANGED <<currentProvince, view, errorText, renders, panel,
                        discarded, docListeners, shownFrom>>
       ELSE shownFrom' = q /\ RenderError(ResultsFailure(resp))
    /\ UNCHANGED requests

\* The fetch of request q settles with resp.
SettleResults(q, resp) ==
    /\ q \in inflight
    /\ requests[q].url.endpoint = "results"
    /\ inflight' = inflight \ {q}
    /\ shownFrom' = q
    /\ IF ReachesData(resp) /\ resp.wellFormed
       THEN renders < MaxPanels /\ RenderResults(resp.payload)
       ELSE RenderError(ResultsFailure(resp))
    /\ UNCHANGED requests

ResultsSettle ==
    \E q \in inflight, resp \in ResultsResponses : SettleResults(q, resp)

\* The second .then and the .catch of fetchAndRenderTable (lines 241-247):
\* both write into the content area fetchAndRenderTable looked up.
TableOutcome(resp) ==
    IF ReachesData(resp) THEN MarkupContent(resp.markup)
    ELSE ErrorContent(ResponseError(resp))

\* The render whose content area request q holds.
TableTarget(q) == requests[q].panel

\* Variant of ApplyTable: a failed table fetch renders the error panel of
\* the results fetch.
ApplyTable_ErrorPanel(q, resp) ==
    /\ panel' = IF TableTarget(q) = renders
                THEN [panel EXCEPT !.tableContent = TableOutcome(resp)]
                ELSE panel
    /\ discarded' = [k \in 1..Len(discarded) |->
                        IF TableTarget(q) = k
                        THEN [discarded[k] EXCEPT
                                !.tableContent = TableOutcome(resp)]
                        ELSE discarded[k]]
    /\ view' = IF ReachesData(resp) THEN view ELSE "error"
    /\ errorText' = IF ReachesData(resp) THEN errorText
                    ELSE ResponseError(resp)
    /\ UNCHANGED <<currentProvince, renders, docListeners, shownFrom>>

\* Variant of ApplyTable: the content area is looked up when the fetch
\* settles, not when it is issued.
ApplyTable_LooksUpLate(q, resp) ==
    /\ panel' = IF Rendered \/ TableTarget(q) = renders
                THEN [panel EXCEPT !.tableContent = TableOutcome(resp)]
                ELSE panel
    /\ discarded' = [k \in 1..Len(discarded) |->
                        IF ~Rendered /\ TableTarget(q) = k
                        THEN [discarded[k] EXCEPT
                                !.tableContent = TableOutcome(resp)]
                        ELSE discarded[k]]
    /\ UNCHANGED <<currentProvince, view, errorText, renders, docListeners,
                   shownFrom>>

ApplyTable(q, resp) ==
    /\ panel' = IF TableTarget(q) = renders
                THEN [panel EXCEPT !.tableContent = TableOutcome(resp)]
                ELSE panel
    /\ discarded' = [k \in 1..Len(discarded) |->
                        IF TableTarget(q) = k
                        THEN [discarded[k] EXCEPT
                                !.tableContent = TableOutcome(resp)]
                        ELSE discarded[k]]
    /\ UNCHANGED <<currentProvince, view, errorText, renders, docListeners,
                   shownFrom>>

SettleTable(q, resp) ==
    /\ q \in inflight
    /\ requests[q].url.endpoint = "table"
    /\ inflight' = inflight \ {q}
    /\ ApplyTable(q, resp)
    /\ UNCHANGED requests

TableSettle ==
    \E q \in inflight, resp \in TableResponses : SettleTable(q, resp)

----------------------------------------------------------------------------

Next ==
    \/ OptionClick
    \/ InsideClick
    \/ ButtonClick
    \/ OutsideClick
    \/ PlotTabClick
    \/ TableTabClick
    \/ ResultsSettle
    \/ TableSettle

Spec == Init /\ [][Next]_vars

TypeOK ==
    /\ view \in {"loading", "panel", "error"}
    /\ inflight \subseteq 1..Len(requests)
    /\ docListeners \subseteq 1..renders
    /\ Len(discarded) = (IF renders = 0 THEN 0 ELSE renders - 1)

----------------------------------------------------------------------------
(* Properties. *)

\* Table fetches whose content area belongs to render k.
TableRequestsOf(k) ==
    Cardinality({i \in 1..Len(requests) :
                    /\ requests[i].url.endpoint = "table"
                    /\ requests[i].panel = k})

ResultsRequests ==
    {i \in 1..Len(requests) : requests[i].url.endpoint = "results"}

LastResultsRequest ==
    CHOOSE i \in ResultsRequests : \A j \in ResultsRequests : j <= i

\* A step in which the fetch of a request of this kind settles.
Settles(endpoint) ==
    \E q \in inflight : q \notin inflight' /\ requests[q].url.endpoint = endpoint

\* A step in which one fetch is issued to this endpoint, and no other.
Issues(endpoint) ==
    /\ Len(requests') = Len(requests) + 1
    /\ SubSeq(requests', 1, Len(requests)) = requests
    /\ requests'[Len(requests')].url.endpoint = endpoint

\* C1: within one render the table is fetched at most once.  The first
\* activation of the Table tab issues the one table fetch and sets
\* tableHasBeenLoaded in the same step; any later activation in that render,
\* the fetch settled or not, issues nothing and still shows the table pane.
C1_TableFetchedOncePerRender ==
    [][ /\ \A k \in 1..renders' : TableRequestsOf(k)' <= 1
        /\ TableTabClick =>
            /\ panel'.tableHasBeenLoaded
            /\ panel'.plotHidden /\ ~panel'.tableHidden
            /\ TableRequestsOf(renders)' = 1
            /\ IF panel.tableHasBeenLoaded
               THEN requests' = requests /\ inflight' = inflight
               ELSE Issues("table") ]_vars

\* C1 witness: the table fetch of the panel in the document is outstanding,
\* its flag is set, and the user is back on the plot pane: the next Table
\* activation is a second one before the first fetch has resolved.
C1_Witness ==
    /\ Rendered
    /\ panel.tableHasBeenLoaded
    /\ ~panel.plotHidden
    /\ panel.tableContent = LoadingContent
    /\ \E q \in inflight : requests[q].url.endpoint = "table"
                           /\ requests[q].panel = renders

\* C2: tableHasBeenLoaded is false after every render, a Table activation
\* sets it, and once set it stays set for as long as the panel is in the
\* document: only the selection that starts the next results fetch clears it.
C2_FlagLifecycle ==
    [][ /\ renders' # renders => ~panel'.tableHasBeenLoaded
        /\ TableTabClick => panel'.tableHasBeenLoaded
        /\ (panel.tableHasBeenLoaded /\ renders' = renders
                /\ ~panel'.tableHasBeenLoaded)
            => Rendered /\ view' = "loading" /\ Issues("results") ]_vars

\* C2 witness: the table was loaded, then the user went back to the plot and
\* opened the dropdown; the flag is still set.
C2_Witness ==
    /\ Rendered
    /\ panel.tableHasBeenLoaded
    /\ panel.tableContent.kind = "markup"
    /\ ~panel.plotHidden
    /\ ~panel.optionsHidden

\* C3, as claimed: selecting any offered option p issues exactly one results
\* fetch, carrying p as its province, with currentProvince already p.
C3_Original ==
    [][ \A i \in 1..Len(panel.options) :
            (CanSelect /\ SelectOption(panel.options[i])) =>
                /\ Issues("results")
                /\ currentProvince' = panel.options[i].value
                /\ requests'[Len(requests')].url.hasProvince
                /\ requests'[Len(requests')].url.province
                        = panel.options[i].value ]_vars

\* C3, amended: selecting any offered option p issues exactly one results
\* fetch, with currentProvince already p; the fetch carries p as its province
\* when p is not the empty string, and no province parameter when it is.
C3_SelectionFetchesOnce ==
    [][ \A i \in 1..Len(panel.options) :
            (CanSelect /\ SelectOption(panel.options[i])) =>
                /\ Issues("results")
                /\ currentProvince' = panel.options[i].value
                /\ IF panel.options[i].value # ""
                   THEN /\ requests'[Len(requests')].url.hasProvince
                        /\ requests'[Len(requests')].url.province
                                = panel.options[i].value
                   ELSE ~requests'[Len(requests')].url.hasProvince ]_vars

\* C3 witness: a province other than the one tracked before was selected and
\* its request is outstanding.
C3_Witness ==
    /\ view = "loading"
    /\ renders >= 1
    /\ currentProvince = "ON"
    /\ panel.selectedText = "ON"
    /\ LastResultsRequest \in inflight
    /\ requests[LastResultsRequest].url.province = "ON"
    /\ requests[1].url.province # "ON"

\* C4: once no results fetch is outstanding, the container shows what the
\* response to the most recently issued results request produced.
C4_LatestRequestWins ==
    (\A q \in inflight : requests[q].url.endpoint # "results")
        => view # "loading" /\ shownFrom = LastResultsRequest

\* C4 witness: a selection was made and its response has rendered.
C4_Witness ==
    /\ Rendered
    /\ renders >= 2
    /\ shownFrom = LastResultsRequest
    /\ shownFrom >= 2
    /\ \A q \in inflight : requests[q].url.endpoint # "results"

\* C5: a results fetch that fails replaces the container by the error panel,
\* whose text is the failure's message (the body's error field of a
\* non-success JSON body that has one), and from the error panel no request
\* is issued.
C5_FailureShowsErrorPanel ==
    [][ /\ \A q \in inflight, resp \in ResultsResponses :
                (SettleResults(q, resp)
                    /\ ~(ReachesData(resp) /\ resp.wellFormed)) =>
                    /\ view' = "error"
                    /\ errorText' # ""
                    /\ (resp.net /\ ~resp.ok /\ resp.parsable
                            /\ resp.error # "")
                        => errorText' = resp.error
                    /\ requests' = requests
        /\ view = "error" => requests' = requests ]_vars

\* C5 witness: the error panel shows "no model".
C5_Witness ==
    /\ view = "error"
    /\ errorText = "no model"
    /\ shownFrom >= 1

\* The message C6 claims for a non-success response.
ClaimedMessage(resp) ==
    IF resp.parsable /\ resp.error # "" THEN resp.error ELSE GenericMessage

\* C6, as claimed: for both fetches, a non-success response fails with the
\* body's error field when there is one, and with the generic message when
\* the field is absent or the body is not JSON.
C6_NonSuccessMessage ==
    [][ /\ \A q \in inflight, resp \in ResultsResponses :
                (SettleResults(q, resp) /\ resp.net /\ ~resp.ok) =>
                    errorText' = ClaimedMessage(resp)
        /\ \A q \in inflight, resp \in TableResponses :
                (SettleTable(q, resp) /\ resp.net /\ ~resp.ok
                    /\ TableTarget(q) = renders) =>
                    panel'.tableContent = ErrorContent(ClaimedMessage(resp))
      ]_vars

\* The results request q was issued by selecting "All".
SelectedAll(q) == q > 1 /\ requests[q].url.province = "All"

\* C7, as claimed: selecting "All" shows "All Provinces" at once, and so does
\* the panel rendered from the response to that selection, whatever
\* selected_province the payload carries.
C7_Original ==
    [][ /\ \A i \in 1..Len(panel.options) :
                (CanSelect /\ SelectOption(panel.options[i])
                    /\ panel.options[i].value = "All") =>
                    panel'.selectedText = "All Provinces"
        /\ \A q \in inflight, resp \in ResultsResponses :
                (SelectedAll(q) /\ SettleResults(q, resp)
                    /\ renders' # renders) =>
                    panel'.selectedText = "All Provinces" ]_vars

\* C7, amended: selecting "All" shows "All Provinces" at once; the panel
\* rendered from the response to that selection shows "All Provinces" when
\* the payload's selected_province is absent, empty or "All", and the
\* payload's selected_province otherwise.
C7_AllShowsAllProvinces ==
    [][ /\ \A i \in 1..Len(panel.options) :
                (CanSelect /\ SelectOption(panel.options[i])
                    /\ panel.options[i].value = "All") =>
                    panel'.selectedText = "All Provinces"
        /\ \A q \in inflight, resp \in ResultsResponses :
                (SelectedAll(q) /\ SettleResults(q, resp)
                    /\ renders' # renders) =>
                    panel'.selectedText =
                        (IF resp.payload.selected_province \in {"", "All"}
                         THEN "All Provinces"
                         ELSE resp.payload.selected_province) ]_vars

\* C7 witness: "All" was selected on a panel that showed another province,
\* and the panel rendered from the response shows "All Provinces".
C7_Witness ==
    /\ Rendered
    /\ renders >= 2
    /\ SelectedAll(shownFrom)
    /\ requests[1].url.province = "All"
    /\ panel.selectedText = "All Provinces"
    /\ currentProvince = "All"

\* C8, as claimed: no settled fetch, of either kind, successful or failed,
\* changes currentProvince.
C8_Original ==
    [][ (Settles("results") \/ Settles("table"))
            => currentProvince' = currentProvince ]_vars

\* C8, amended: a settled table fetch and a failed results fetch leave
\* currentProvince and tableHasBeenLoaded as they are; a successful results
\* fetch sets currentProvince to the payload's selected_province when that
\* is not empty, leaves it when it is itself not empty, and sets it to "All"
\* otherwise.
C8_SettledFetchAndSelection ==
    [][ /\ ((Settles("results") \/ Settles("table")) /\ renders' = renders)
            => /\ currentProvince' = currentProvince
               /\ panel'.tableHasBeenLoaded = panel.tableHasBeenLoaded
        /\ \A q \in inflight, resp \in ResultsResponses :
                (SettleResults(q, resp) /\ renders' # renders) =>
                    currentProvince' =
                        (IF resp.payload.selected_province # ""
                         THEN resp.payload.selected_province
                         ELSE IF currentProvince # "" THEN currentProvince
                         ELSE "All") ]_vars

\* C8 witness: the results fetch of a selection has failed; currentProvince
\* is still the province selected.
C8_Witness ==
    /\ view = "error"
    /\ shownFrom >= 2
    /\ currentProvince = "ON"
    /\ requests[shownFrom].url.province = "ON"

\* C9: a settled table fetch, successful or failed, writes the table content
\* area it belongs to and nothing else: the container, the error text, the
\* panes, the selector, the options box, currentProvince and
\* tableHasBeenLoaded stay as they are.
C9_TableOutcomeIsLocal ==
    [][ Settles("table") =>
            /\ UNCHANGED <<currentProvince, view, errorText, renders,
                           docListeners, requests, shownFrom>>
            /\ panel' = [panel EXCEPT !.tableContent = panel'.tableContent]
            /\ Len(discarded') = Len(discarded)
            /\ \A k \in 1..Len(discarded) :
                    discarded'[k].optionsHidden = discarded[k].optionsHidden
      ]_vars

\* C9 witness: the table pane of the panel in the document shows the error
\* of its table fetch.
C9_Witness ==
    /\ Rendered
    /\ ~panel.tableHidden
    /\ panel.tableContent = ErrorContent("no model")

\* C10: a fresh render shows the plot pane and hides the table pane; Plot
\* shows the plot pane and hides the table pane, Table does the opposite; so
\* a rendered panel always shows exactly one of the two.
C10_OnePaneVisible ==
    [][ /\ renders' # renders => ~panel'.plotHidden /\ panel'.tableHidden
        /\ Rendered' => panel'.plotHidden # panel'.tableHidden
        /\ PlotTabClick => ~panel'.plotHidden /\ panel'.tableHidden
        /\ TableTabClick => panel'.plotHidden /\ ~panel'.tableHidden ]_vars

\* C10 witness: the user went to the table pane and came back to the plot.
C10_Witness ==
    /\ Rendered
    /\ panel.tableHasBeenLoaded
    /\ ~panel.plotHidden
    /\ panel.tableHidden

\* C11: every request, results or table, is built from currentProvince as it
\* is when the request is issued: it carries a province parameter exactly
\* when that value is not the empty string, and the parameter is then that
\* value itself ("All" included).
C11_ProvinceParameter ==
    /\ requests[1].url.hasProvince /\ requests[1].url.province = "All"
    /\ [][ Len(requests') > Len(requests) =>
            /\ Len(requests') = Len(requests) + 1
            /\ requests'[Len(requests')].url.hasProvince
                    <=> currentProvince' # ""
            /\ requests'[Len(requests')].url.hasProvince
                    => requests'[Len(requests')].url.province
                            = currentProvince' ]_vars

\* C11 witness: the option with the empty value was selected; the request
\* now outstanding carries no province parameter.
C11_Witness ==
    /\ view = "loading"
    /\ currentProvince = ""
    /\ LastResultsRequest \in inflight
    /\ ~requests[LastResultsRequest].url.hasProvince

\* The selection C12 gives a render: the payload's selected_province, else
\* the tracked province, else "All".
ChosenSelection(payload, tracked) ==
    CHOOSE v \in {payload.selected_province, tracked, "All"} :
        \/ payload.selected_province # "" /\ v = payload.selected_province
        \/ payload.selected_province = "" /\ tracked # "" /\ v = tracked
        \/ payload.selected_province = "" /\ tracked = "" /\ v = "All"

\* C12: the selector of a freshly rendered panel shows the payload's
\* selected_province when that is not empty, else the tracked province when
\* that is not empty, else "All"; "All" is shown as "All Provinces", any
\* other value as itself.
C12_DisplayPrecedence ==
    [][ \A q \in inflight, resp \in ResultsResponses :
            (SettleResults(q, resp) /\ renders' # renders) =>
                LET v == ChosenSelection(resp.payload, currentProvince)
                IN  panel'.selectedText =
                        (IF v = "All" THEN "All Provinces" ELSE v) ]_vars

\* C12 witness: the panel rendered for the selection "ON" shows "ON"; no
\* payload carries that value, so it is the tracked province that is shown.
C12_Witness ==
    /\ Rendered
    /\ shownFrom >= 2
    /\ requests[shownFrom].url.province = "ON"
    /\ panel.selectedText = "ON"
    /\ "ON" \notin SelectedProvinces

\* The options of a panel are "All" followed by the provinces ps, in order.
AllThenProvinces(os, ps) ==
    /\ Len(os) = Len(ps) + 1
    /\ os[1].value = "All" /\ os[1].text = "All Provinces"
    /\ \A i \in 1..Len(ps) : os[i + 1].value = ps[i] /\ os[i + 1].text = ps[i]

NoSharedValue(os) ==
    \A i \in 1..Len(os), j \in 1..Len(os) : i # j => os[i].value # os[j].value

Distinct(ps) ==
    \A i \in 1..Len(ps), j \in 1..Len(ps) : i # j => ps[i] # ps[j]

\* C13, as claimed: every rendered panel offers "All" followed by the
\* payload's provinces in payload order, and no two options share a value
\* when the payload's provinces do not contain "All".
C13_Original ==
    [][ \A q \in inflight, resp \in ResultsResponses :
            (SettleResults(q, resp) /\ renders' # renders) =>
                /\ AllThenProvinces(panel'.options, resp.payload.provinces)
                /\ (\A i \in 1..Len(resp.payload.provinces) :
                        resp.payload.provinces[i] # "All")
                    => NoSharedValue(panel'.options) ]_vars

\* C13, amended: every rendered panel offers "All" followed by the payload's
\* provinces in payload order, and no two options share a value when the
\* payload's provinces are pairwise distinct and do not contain "All".
C13_OptionList ==
    [][ \A q \in inflight, resp \in ResultsResponses :
            (SettleResults(q, resp) /\ renders' # renders) =>
                /\ AllThenProvinces(panel'.options, resp.payload.provinces)
                /\ (/\ Distinct(resp.payload.provinces)
                    /\ \A i \in 1..Len(resp.payload.provinces) :
                            resp.payload.provinces[i] # "All")
                    => NoSharedValue(panel'.options) ]_vars

\* C13 witness: a panel rendered from a payload with two provinces offers
\* three options, "All" first, then the two in payload order.
C13_Witness ==
    /\ Rendered
    /\ Len(panel.options) = 3
    /\ panel.options[1].value = "All"
    /\ panel.options[2].value = "QC"
    /\ panel.options[3].value = ""

\* C14: the options box is hidden on every fresh render; a click on the
\* selector button toggles it; a click outside the selector (the tabs
\* included) hides it; selecting an option hides it; and only a click on the
\* button ever shows it.
C14_DropdownOpenClose ==
    [][ /\ renders' # renders => panel'.optionsHidden
        /\ ButtonClick => panel'.optionsHidden = ~panel.optionsHidden
        /\ (OutsideClick \/ PlotTabClick \/ TableTabClick)
            => panel'.optionsHidden
        /\ \A i \in 1..Len(panel.options) :
                (CanSelect /\ SelectOption(panel.options[i]))
                    => panel'.optionsHidden
        /\ (panel.optionsHidden /\ ~panel'.optionsHidden) => ButtonClick
      ]_vars

\* C14 witness: the options box is open on the table pane: the click on the
\* Table tab hid it, so the button was clicked after that.
C14_Witness ==
    /\ Rendered
    /\ ~panel.optionsHidden
    /\ ~panel.tableHidden

\* C15: no results response is dropped.  Whichever outstanding results fetch
\* settles, and whenever, its handlers write the container: a well-formed
\* success renders a new panel, anything else the error panel.  What the
\* container shows is therefore always the work of the fetch that settled
\* last.
C15_EveryResponseApplied ==
    [][ /\ \A q \in inflight :
                (requests[q].url.endpoint = "results" /\ q \notin inflight')
                    => /\ shownFrom' = q
                       /\ \/ view' = "panel" /\ renders' = renders + 1
                          \/ view' = "error" /\ renders' = renders
        /\ \A q \in inflight, resp \in ResultsResponses :
                SettleResults(q, resp) =>
                    IF ReachesData(resp) /\ resp.wellFormed
                    THEN view' = "panel"
                    ELSE view' = "error" ]_vars

\* C15 witness: the response to a selection carried a selected_province
\* other than the province requested, and was rendered all the same.
C15_Witness ==
    /\ Rendered
    /\ shownFrom >= 2
    /\ requests[shownFrom].url.province = "ON"
    /\ panel.selectedText = "QC"

ResultsOutstanding ==
    {q \in inflight : requests[q].url.endpoint = "results"}

\* C16: the container shows the loading placeholder exactly while one
\* results fetch is outstanding.  While it does, no request is issued, and
\* the placeholder goes only when that fetch settles; the step in which it
\* settles ends in the panel or in the error panel, the error panel for
\* every failure, a malformed success payload included.
C16_LoadingEndsOnce ==
    [][ /\ (view = "loading") <=> (Cardinality(ResultsOutstanding) = 1)
        /\ (view' = "loading") <=> (Cardinality(ResultsOutstanding') = 1)
        /\ Cardinality(ResultsOutstanding) <= 1
        /\ view = "loading" =>
            /\ requests' = requests
            /\ (view' # "loading") <=> Settles("results")
        /\ \A q \in inflight, resp \in ResultsResponses :
                SettleResults(q, resp) =>
                    /\ view = "loading"
                    /\ view' \in {"panel", "error"}
                    /\ ~(ReachesData(resp) /\ resp.wellFormed)
                        => view' = "error" /\ errorText' # "" ]_vars

\* C16 witness: a success response whose payload could not be rendered has
\* ended in the error panel.
C16_Witness ==
    /\ view = "error"
    /\ errorText = TypeErrorMessage
    /\ shownFrom >= 1
    /\ ResultsOutstanding = {}

\* C17: every successful render registers one more document listener and
\* none is ever removed: after k renders there are k, one per render.  The
\* listener of an earlier render holds the options box of that render, which
\* is out of the document and stays hidden; the box in the document is
\* opened by its own button alone, however many listeners there are.
C17_ListenersAccumulate ==
    [][ /\ docListeners \subseteq docListeners'
        /\ docListeners' = 1..renders'
        /\ Cardinality(docListeners') = renders'
        /\ renders' = renders + 1
            => Cardinality(docListeners') = Cardinality(docListeners) + 1
        /\ \A k \in 1..Len(discarded') : discarded'[k].optionsHidden
        /\ (renders' = renders /\ panel.optionsHidden
                /\ ~panel'.optionsHidden)
            => Rendered /\ ButtonClick ]_vars

\* C17 witness: two renders, two listeners, and the options box of the
\* second render open while the listener of the first is still registered.
C17_Witness ==
    /\ Rendered
    /\ renders = 2
    /\ docListeners = {1, 2}
    /\ ~panel.optionsHidden
    /\ discarded[1].optionsHidden

\* C18, as claimed: the document listener hides the options box only for a
\* click outside both the button and the options box: a click inside the
\* options box that hits no option leaves the box as it is, and a click on
\* the button does nothing but toggle it.
C18_InsideClickKeepsState ==
    [][ /\ InsideClick => panel'.optionsHidden = panel.optionsHidden
        /\ ButtonClick => panel'.optionsHidden = ~panel.optionsHidden ]_vars

\* The table fetch issued in the latest render is outstanding.
OwnTableOutstanding ==
    \E q \in inflight : /\ requests[q].url.endpoint = "table"
                        /\ requests[q].panel = renders

\* C19: a table fetch issued in an earlier render, when it settles, changes
\* nothing of the latest panel and nothing of the loading placeholder or the
\* error panel.  The content area of the latest panel is empty until its own
\* table fetch is issued, shows the loading text while that fetch is
\* outstanding, and its outcome afterwards.
C19_TableBelongsToItsRender ==
    [][ /\ \A q \in inflight, resp \in TableResponses :
                SettleTable(q, resp) =>
                    /\ view' = view /\ errorText' = errorText
                    /\ TableTarget(q) # renders => panel' = panel
                    /\ TableTarget(q) = renders =>
                            panel'.tableContent.kind \in {"markup", "error"}
        /\ (panel'.tableContent = EmptyContent)
                <=> (TableRequestsOf(renders)' = 0)
        /\ (panel'.tableContent = LoadingContent) <=> OwnTableOutstanding'
      ]_vars

\* C19 witness: the second panel is in the document with its own table
\* fetch outstanding, while the table fetch of the first panel has not
\* settled yet either.
C19_Witness ==
    /\ Rendered
    /\ renders = 2
    /\ panel.tableContent = LoadingContent
    /\ OwnTableOutstanding
    /\ \E q \in inflight : /\ requests[q].url.endpoint = "table"
                           /\ requests[q].panel = 1

\* C20: at most one results fetch is outstanding.  The step that issues one
\* puts the loading placeholder in the container, so that no panel, and no
\* option to select, is in the document, and it issues no other; while one
\* is outstanding no selection is possible, and the only step that issues a
\* results fetch from a rendered panel is a selection.
C20_OneResultsRequest ==
    [][ /\ Cardinality(ResultsOutstanding') <= 1
        /\ Issues("results") =>
            /\ ResultsOutstanding = {}
            /\ Cardinality(ResultsOutstanding') = 1
            /\ view' = "loading"
            /\ ~CanSelect'
            /\ CanSelect
            /\ \E i \in 1..Len(panel.options) : SelectOption(panel.options[i])
        /\ ResultsOutstanding' # {} => ~Rendered' /\ ~CanSelect'
      ]_vars

\* C20 witness: a selection in a rendered panel has issued the second
\* results fetch, which is the only one outstanding.
C20_Witness ==
    /\ renders >= 1
    /\ view = "loading"
    /\ Cardinality(ResultsRequests) >= 2
    /\ Cardinality(ResultsOutstanding) = 1

\* C21: the error panel is never left.  While the container shows it no
\* option can be selected and no results fetch is outstanding, and a step
\* keeps the error text, the tracked province, the renders, the listeners
\* and the requests issued so far; the one thing a step can still change is
\* the content area of a panel that is out of the document, when a table
\* fetch issued before the failure settles.
C21_ErrorIsAbsorbing ==
    [][ view = "error" =>
            /\ ~CanSelect
            /\ ResultsOutstanding = {}
            /\ view' = "error"
            /\ errorText' = errorText
            /\ currentProvince' = currentProvince
            /\ requests' = requests
            /\ renders' = renders
            /\ docListeners' = docListeners
            /\ ~OptionClick /\ ~ButtonClick /\ ~InsideClick
            /\ ~PlotTabClick /\ ~TableTabClick
            /\ OutsideClick => UNCHANGED vars
            /\ [panel' EXCEPT !.tableContent = panel.tableContent] = panel
            /\ ~(UNCHANGED <<panel, discarded, inflight>>) => Settles("table")
      ]_vars

\* C21 witness: a results fetch issued by a selection has failed; the error
\* panel stands where a panel with a selector, tabs and a document listener
\* once was, a table fetch of that panel has not settled yet, and the bound
\* on requests is not what keeps further requests away.
C21_Witness ==
    /\ view = "error"
    /\ renders >= 1
    /\ docListeners # {}
    /\ Len(panel.options) >= 1
    /\ Len(requests) < MaxRequests
    /\ \E q \in inflight : requests[q].url.endpoint = "table"

\* The text the selector shows for a tracked province.
ShownFor(tracked) == IF tracked = "All" THEN "All Provinces" ELSE tracked

\* C22: whenever the panel is in the document the tracked province is not
\* empty and the selector shows it: "All Provinces" exactly when it is
\* "All", the tracked province itself otherwise.  A table fetch issued from
\* the panel carries a province parameter, and its value is the province
\* the selector shows.
C22_DisplayAgreesWithTracked ==
    [][ /\ Rendered' =>
            /\ currentProvince' # ""
            /\ panel'.selectedText = ShownFor(currentProvince')
            /\ (panel'.selectedText = "All Provinces")
                    <=> (currentProvince' = "All")
        /\ Issues("table") =>
            LET url == requests'[Len(requests')].url
            IN  /\ Rendered /\ Rendered'
                /\ url.hasProvince
                /\ url.province # ""
                /\ panel.selectedText = ShownFor(url.province)
                /\ panel'.selectedText = ShownFor(url.province)
      ]_vars

\* C22 witness: the payload named "QC" in answer to a request for another
\* province; the panel shows "QC" and its table fetch asks for "QC".
C22_Witness ==
    /\ Rendered
    /\ shownFrom >= 1
    /\ requests[shownFrom].url.province # "QC"
    /\ panel.selectedText = "QC"
    /\ \E q \in 1..Len(requests) :
            /\ requests[q].url.endpoint = "table"
            /\ requests[q].panel = renders
            /\ requests[q].url.hasProvince
            /\ requests[q].url.province = "QC"

====
